---- MODULE Spec2Model ----
(***************************************************************************)
(* Model of the NYU-depth data pipeline (src/model/dataloader.py) and of   *)
(* the training loop (src/train.py).                                       *)
(*                                                                         *)
(* Text is modelled as sequences of one-character strings, the archive as  *)
(* a function from entry names to payloads, Python floats as IEEE-754      *)
(* binary64 values (53-bit mantissas kept in three 18-bit limbs, because   *)
(* TLC's integers are 32 bits wide).                                       *)
(***************************************************************************)
EXTENDS Integers, Sequences, FiniteSets, TLC

VARIABLES
  \* ---- DataLoaders object (src/model/dataloader.py:170-213)
  dl_pc,          \* "new" | "built" | "failed"
  dl_error,       \* exception that aborted DataLoaders.__init__, or "none"
  data,           \* self.data: entry name -> payload (the archive mapping)
  parsed,         \* self.nyu_train as parsed, before random.shuffle (history)
  shuffled,       \* self.nyu_train right after random.shuffle (history)
  nyu_train,      \* self.nyu_train
  nyu_val,        \* self.nyu_val
  nyu_test,       \* self.nyu_test
  ratio,          \* the train_val_ratio argument, as the literal num/den
  resized,        \* self.resized
  \* ---- NYUDepthDatasetRaw objects behind the two loaders
  train_dataset,  \* dataset of get_train_dataloader, or NoDataset
  val_dataset,    \* dataset of get_val_dataloader, or NoDataset
  workers,        \* per worker process: its __getitem__ call in progress
  \* ---- Trainer.train_and_evaluate (src/train.py:29-141): its locals
  tr_pc,          \* "start" | "epoch_start" | "iterating" | "done"
  checkpoint_file,\* the checkpoint_file argument (None without one)
  num_batches,    \* len(train_dataloader)
  epoch,          \* the epoch loop's variable
  iteration,      \* index of the batch the iteration loop handles next
  model_state,    \* model.state_dict(): the optimizer steps the weights took
  lr,             \* the optimizer's learning rate (part of its state_dict)
  last_epoch,     \* the scheduler's step counter
  best_rmse, is_best, best_test_rmse, is_best_test,
  metrics,        \* metrics['rmse'] of the last periodic evaluation
  test_metrics,   \* test_metrics['rmse'] of the last periodic evaluation
  accumulated_loss,
  accumulated_iteration_time,
  eta,            \* seconds of the last ETA computed, -1 before the first
  store           \* checkpoint_dir -> the writes save_checkpoint made there

tr == <<tr_pc, checkpoint_file, num_batches, epoch, iteration, model_state, lr, last_epoch,
        best_rmse, is_best, best_test_rmse, is_best_test, metrics, test_metrics,
        accumulated_loss, accumulated_iteration_time, eta, store>>

vars == <<dl_pc, dl_error, data, parsed, shuffled, nyu_train, nyu_val, nyu_test,
          ratio, resized, train_dataset, val_dataset, workers, tr>>

dlVars == <<dl_pc, dl_error, data, parsed, shuffled, nyu_train, nyu_val,
            nyu_test, ratio, resized>>

serveVars == <<train_dataset, val_dataset, workers>>

(***************************************************************************)
(* Bounds of the model.                                                    *)
(***************************************************************************)
MaxLines == 3        \* lines of a generated training manifest
MaxWorkers == 2      \* worker processes calling __getitem__ concurrently

(***************************************************************************)
(* Sequence helpers.                                                       *)
(***************************************************************************)
Range(s) == {s[i] : i \in 1..Len(s)}

Take(s, n) == SubSeq(s, 1, n)

Drop(s, n) == SubSeq(s, n + 1, Len(s))

Reverse(s) == [i \in 1..Len(s) |-> s[Len(s) + 1 - i]]

RECURSIVE SeqsUpTo(_, _)
SeqsUpTo(S, n) ==
  IF n = 0 THEN {<<>>}
  ELSE LET shorter == SeqsUpTo(S, n - 1)
       IN  shorter \cup {Append(s, x) : s \in {t \in shorter : Len(t) = n - 1}, x \in S}

Perms(n) == {p \in [1..n -> 1..n] : \A i, j \in 1..n : p[i] = p[j] => i = j}

(***************************************************************************)
(* IEEE-754 binary64 arithmetic, as far as `int(len * train_val_ratio)`    *)
(* needs it.  A double x with 0 < x < 1 is [l1, l2, l3, exp]: its 53-bit   *)
(* mantissa m = l1 * 2^36 + l2 * 2^18 + l3 in three limbs of 18 bits       *)
(* (2^52 <= m < 2^53), its value m * 2^exp.                                *)
(***************************************************************************)
MantBits == 53

LimbBits == 18

Pow2Table ==
  <<2, 4, 8, 16, 32, 64, 128, 256, 512, 1024, 2048, 4096, 8192, 16384, 32768,
    65536, 131072, 262144, 524288, 1048576, 2097152, 4194304, 8388608,
    16777216, 33554432, 67108864, 134217728, 268435456, 536870912, 1073741824>>

Pow2(k) == IF k = 0 THEN 1 ELSE Pow2Table[k]

Limb == Pow2(LimbBits)

Max(S) == CHOOSE x \in S : \A y \in S : y <= x

\* The number of bits of v (0 for 0), v < 2^31.
BitLen(v) == Cardinality({k \in 0..30 : Pow2(k) <= v})

RECURSIVE BitsToInt(_)
BitsToInt(b) ==
  IF Len(b) = 0 THEN 0 ELSE 2 * BitsToInt(Take(b, Len(b) - 1)) + b[Len(b)]

\* b + 1; the result is one bit longer when b is all ones.
IncBits(b) ==
  LET zeros == {i \in 1..Len(b) : b[i] = 0}
  IN  IF zeros = {} THEN <<1>> \o [i \in 1..Len(b) |-> 0]
      ELSE [i \in 1..Len(b) |->
              IF i < Max(zeros) THEN b[i] ELSE IF i = Max(zeros) THEN 1 ELSE 0]

SqMod(x, den) == (x * x) % den

\* 2^k modulo den.
RECURSIVE Pow2Mod(_, _)
Pow2Mod(k, den) ==
  IF k = 0 THEN 1 % den
  ELSE IF k % 2 = 0 THEN SqMod(Pow2Mod(k \div 2, den), den)
  ELSE (2 * Pow2Mod(k - 1, den)) % den

\* The remainder of the long division rem/den after n binary digits.
FracRem(rem, den, n) == (rem * Pow2Mod(n, den)) % den

\* The first n bits of rem/den after the binary point (0 <= rem < den).
FracBits(rem, den, n) ==
  [i \in 1..n |-> IF 2 * FracRem(rem, den, i - 1) >= den THEN 1 ELSE 0]

\* Zero bits of num/den between the binary point and its first one bit.
RECURSIVE LeadingZeros(_, _)
LeadingZeros(num, den) ==
  IF 2 * num >= den THEN 0 ELSE 1 + LeadingZeros(2 * num, den)

\* The double of mantissa bits m (53 of them) and exponent e.
Double(m, e) ==
  [l1  |-> BitsToInt(SubSeq(m, 1, MantBits - 2 * LimbBits)),
   l2  |-> BitsToInt(SubSeq(m, MantBits - 2 * LimbBits + 1, MantBits - LimbBits)),
   l3  |-> BitsToInt(SubSeq(m, MantBits - LimbBits + 1, MantBits)),
   exp |-> e]

\* The double that the literal (or the quotient) num/den denotes, for
\* 0 < num < den < 2^15: the nearest binary64 value, ties to even.
FloatOf(num, den) ==
  LET z    == LeadingZeros(num, den)
      rem0 == FracRem(num, den, z)
      kept == FracBits(rem0, den, MantBits)
      rem1 == FracRem(rem0, den, MantBits)
      up   == 2 * rem1 > den \/ (2 * rem1 = den /\ kept[MantBits] = 1)
      m    == IF up THEN IncBits(kept) ELSE kept
  IN  IF Len(m) > MantBits
      THEN Double(Take(m, MantBits), 1 - (z + MantBits))
      ELSE Double(m, 0 - (z + MantBits))

\* n * x exactly, for 0 <= n < 2^12: the limbs of the product, the top one
\* unbounded.
MulExact(n, x) ==
  LET p3 == x.l3 * n
      p2 == x.l2 * n + (p3 \div Limb)
      p1 == x.l1 * n + (p2 \div Limb)
  IN  [l1 |-> p1, l2 |-> p2 % Limb, l3 |-> p3 % Limb]

\* The product rounded to MantBits significant bits, to nearest, ties to
\* even: the bits dropped all lie in the lowest limb.
RoundProduct(p) ==
  LET d    == BitLen(p.l1) + 2 * LimbBits - MantBits
      low  == p.l3 % Pow2(d)
      keep == p.l3 \div Pow2(d)
      up   == d > 0 /\ (2 * low > Pow2(d) \/ (2 * low = Pow2(d) /\ keep % 2 = 1))
      r3   == p.l3 - low + (IF up THEN Pow2(d) ELSE 0)
      r2   == p.l2 + (r3 \div Limb)
  IN  IF d <= 0 THEN p
      ELSE [l1 |-> p.l1 + (r2 \div Limb), l2 |-> r2 % Limb, l3 |-> r3 % Limb]

\* floor(p * 2^exp) for limbs p and exp <= -2 * LimbBits.
FloorScaled(p, exp) ==
  IF 0 - exp - 2 * LimbBits > 30 THEN 0 ELSE p.l1 \div Pow2(0 - exp - 2 * LimbBits)

\* int(n * x) as Python computes it: n converts to a double exactly, the
\* product is rounded to the nearest double, int() truncates.
IntOfFloatMul(n, x) == FloorScaled(RoundProduct(MulExact(n, x)), x.exp)

(***************************************************************************)
(* Text.  Archive payloads are byte strings (sequences of byte values);    *)
(* bytes.decode('UTF-8') turns them into character strings (sequences of   *)
(* one-character strings) or raises UnicodeDecodeError.                    *)
(***************************************************************************)
Chr ==
  (10 :> "\n") @@ (44 :> ",") @@ (97 :> "a") @@ (98 :> "b") @@ (99 :> "c")
  @@ (120 :> "x") @@ (121 :> "y") @@ (122 :> "z")
  @@ (48 :> "0") @@ (49 :> "1") @@ (50 :> "2") @@ (51 :> "3") @@ (52 :> "4")
  @@ (53 :> "5") @@ (54 :> "6") @@ (55 :> "7") @@ (56 :> "8") @@ (57 :> "9")

\* A byte of 0x80 and above that starts no valid UTF-8 sequence.
IsAscii(byte) == byte < 128

CanDecode(bytes) == \A i \in 1..Len(bytes) : IsAscii(bytes[i])

decode(bytes) == [i \in 1..Len(bytes) |-> Chr[bytes[i]]]

SortedSeq(S) ==
  [k \in 1..Cardinality(S) |-> CHOOSE x \in S : Cardinality({y \in S : y < x}) = k - 1]

\* str.split(sep) for a one-character separator: every piece between two
\* separators, empty pieces included.
split(s, sep) ==
  LET ends == SortedSeq({i \in 1..Len(s) : s[i] = sep} \cup {Len(s) + 1})
  IN  [k \in 1..Len(ends) |->
         SubSeq(s, IF k = 1 THEN 1 ELSE ends[k - 1] + 1, ends[k] - 1)]

\* The loop of DataLoaders.__init__ over one manifest: every non-empty row,
\* split at its commas, in order.
read_rows(text) ==
  LET rows == SelectSeq(split(text, "\n"), LAMBDA row : Len(row) > 0)
  IN  [i \in 1..Len(rows) |-> split(rows[i], ",")]

(***************************************************************************)
(* Archives.  An archive maps entry names to payloads: the two manifests   *)
(* are byte strings, every other entry an encoded image, modelled by the   *)
(* picture Image.open decodes it to (one row of pixels).                   *)
(***************************************************************************)
TrainCsv == <<"data/nyu2_train.csv">>

TestCsv == <<"data/nyu2_test.csv">>

Text(bytes) == [kind |-> "text", bytes |-> bytes]

Picture(mode, px) == [kind |-> "image", mode |-> mode, size |-> <<Len(px), 1>>, px |-> px]

Entry(name, payload) == [name |-> name, payload |-> payload]

ImageFiles ==
  << Entry(<<"a">>, Picture("RGB", << <<10, 20, 30>>, <<40, 50, 60>> >>)),
     Entry(<<"b">>, Picture("RGB", << <<0, 0, 255>>, <<255, 255, 255>> >>)),
     Entry(<<"x">>, Picture("L", <<0, 255>>)),
     Entry(<<"y">>, Picture("L", <<51, 102>>)) >>

\* A container file: whether ZipFile can open it, and its entries in archive
\* order.
Container(train_bytes, test_bytes) ==
  [readable |-> TRUE,
   entries  |-> <<Entry(TrainCsv, Text(train_bytes)), Entry(TestCsv, Text(test_bytes))>>
                  \o ImageFiles]

\* A container without the test manifest.
ContainerNoTest(train_bytes) ==
  [readable |-> TRUE, entries |-> <<Entry(TrainCsv, Text(train_bytes))>> \o ImageFiles]

Unreadable == [readable |-> FALSE, entries |-> <<>>]

\* Lines a generated manifest is made of: "a,x", "b,y", the empty line, the
\* one-field line "a", the three-field line "a,x,y" and a line holding the
\* byte 0xFF.
Lines ==
  { <<97, 44, 120>>, <<98, 44, 121>>, <<>>, <<97>>, <<97, 44, 120, 44, 121>>,
    <<255, 44, 120>> }

\* The lines joined by newlines; a last empty line makes the text end in one.
RECURSIVE JoinLines(_)
JoinLines(ls) ==
  IF Len(ls) = 0 THEN <<>>
  ELSE IF Len(ls) = 1 THEN ls[1]
  ELSE ls[1] \o <<10>> \o JoinLines(Tail(ls))

Digits(n) == IF n < 10 THEN <<48 + n>> ELSE <<48 + (n \div 10), 48 + (n % 10)>>

\* The manifest "0,x0\n1,x1\n ... " of n pairwise distinct lines (n <= 100).
RECURSIVE LongManifest(_)
LongManifest(n) ==
  IF n = 0 THEN <<>>
  ELSE LongManifest(n - 1) \o Digits(n - 1) \o <<44, 120>> \o Digits(n - 1) \o <<10>>

TestManifest == <<98, 44, 121, 10>>

\* A ratio argument: the double that the expression num/den evaluates to.
Ratio(num, den) == [num |-> num, den |-> den, double |-> FloatOf(num, den)]

Prob(num, den) == [num |-> num, den |-> den]

Half == Prob(1, 2)

DefaultRatio == Ratio(9, 10)

(***************************************************************************)
(* DataLoaders                                                             *)
(***************************************************************************)
NoDataset == [split |-> "none"]

Idle == [pc |-> "idle"]

Workers == 1..MaxWorkers

\* random.shuffle: any permutation of the list.  Every permutation is
\* explored up to MaxShuffle entries, the identity and the reversal beyond.
MaxShuffle == 4

shuffle(list) ==
  IF Len(list) <= MaxShuffle
  THEN {[i \in 1..Len(list) |-> list[p[i]]] : p \in Perms(Len(list))}
  ELSE {list, Reverse(list)}

\* {name: input_zip.read(name) for name in input_zip.namelist()}: of two
\* entries of one name the later one stays.
get_zip_file(path) ==
  [name \in {path.entries[i].name : i \in 1..Len(path.entries)} |->
     path.entries[Max({i \in 1..Len(path.entries) : path.entries[i].name = name})].payload]

\* num_train with round() in place of int().
num_train_rounded(n, r) == (2 * n * r.num + r.den) \div (2 * r.den)

\* num_train = int(len(self.nyu_train) * train_val_ratio)
num_train(n, r) == IntOfFloatMul(n, r.double)

\* The exception DataLoaders.__init__ ends with on this archive, or "none".
init_error(path) ==
  IF ~path.readable THEN "IOError"
  ELSE IF TrainCsv \notin DOMAIN get_zip_file(path) THEN "KeyError"
  ELSE IF ~CanDecode(get_zip_file(path)[TrainCsv].bytes) THEN "UnicodeDecodeError"
  ELSE IF TestCsv \notin DOMAIN get_zip_file(path) THEN "KeyError"
  ELSE IF ~CanDecode(get_zip_file(path)[TestCsv].bytes) THEN "UnicodeDecodeError"
  ELSE "none"

DataLoaders_init(path, rsz, r) ==
  /\ dl_pc = "new"
  /\ IF init_error(path) # "none"
     THEN /\ dl_pc' = "failed"
          /\ dl_error' = init_error(path)
          /\ UNCHANGED <<data, parsed, shuffled, nyu_train, nyu_val, nyu_test,
                         ratio, resized>>
     ELSE LET zip   == get_zip_file(path)
              train == read_rows(decode(zip[TrainCsv].bytes))
              test  == read_rows(decode(zip[TestCsv].bytes))
          IN  \E s \in shuffle(train), k \in {num_train(Len(train), r)} :
                /\ dl_pc' = "built"
                /\ dl_error' = "none"
                /\ data' = zip
                /\ parsed' = train
                /\ shuffled' = s
                /\ nyu_test' = test
                /\ nyu_val' = Drop(s, k)
                /\ nyu_train' = Take(s, k)
                /\ ratio' = r
                /\ resized' = rsz
  /\ UNCHANGED <<serveVars, tr>>

(***************************************************************************)
(* Transforms.  A sample is [img, depth]; before ToTensor both are         *)
(* pictures, after it both are tensors.                                    *)
(***************************************************************************)
IsPicture(x) == x.kind = "image"

\* The outcomes of `random.random() < prob`, random.random() being in [0, 1).
Chance(prob) ==
  IF prob.num <= 0 THEN {FALSE}
  ELSE IF prob.num >= prob.den THEN {TRUE}
  ELSE BOOLEAN

\* list(permutations(range(3))), in itertools' order.
channel_perms ==
  << <<1, 2, 3>>, <<1, 3, 2>>, <<2, 1, 3>>, <<2, 3, 1>>, <<3, 1, 2>>, <<3, 2, 1>> >>

\* Image.transpose(FLIP_LEFT_RIGHT): a new picture, every row reversed.
FlipLeftRight(pic) == [pic EXCEPT !.px = Reverse(pic.px)]

\* Image.fromarray(np.asarray(img)[..., perm]): a new picture.
SwapChannels(pic, perm) ==
  [pic EXCEPT !.px = [i \in 1..Len(pic.px) |-> [c \in 1..3 |-> pic.px[i][perm[c]]]]]

\* RandomHorizontalFlip.__call__ with the outcome `flip` of its draw.
RandomHorizontalFlip(sample, flip) ==
  IF flip
  THEN [img |-> FlipLeftRight(sample.img), depth |-> FlipLeftRight(sample.depth)]
  ELSE [img |-> sample.img, depth |-> sample.depth]

\* RandomChannelSwap.__call__ with the outcome `swap` of its draw and the
\* index k (from 1) that random.randint picks in channel_perms.
RandomChannelSwap(sample, swap, k) ==
  IF swap
  THEN [img |-> SwapChannels(sample.img, channel_perms[k]), depth |-> sample.depth]
  ELSE [img |-> sample.img, depth |-> sample.depth]

maxDepth == 1000

\* ToTensor.to_torch: a C x H x W tensor of the values divided by 255 (kept
\* as fractions value/255); a picture without channel axis gets one channel.
to_torch(pic) ==
  LET chans == IF pic.mode = "RGB" THEN 3 ELSE 1
  IN  [kind  |-> "tensor",
       shape |-> <<chans, pic.size[2], pic.size[1]>>,
       den   |-> 255,
       val   |-> [c \in 1..chans |->
                    [i \in 1..Len(pic.px) |->
                       IF pic.mode = "RGB" THEN pic.px[i][c] ELSE pic.px[i]]]]

Scale(t, k) ==
  [t EXCEPT !.val = [c \in 1..Len(t.val) |-> [i \in 1..Len(t.val[c]) |-> t.val[c][i] * k]]]

ToTensor(sample) ==
  [img |-> to_torch(sample.img), depth |-> Scale(to_torch(sample.depth), maxDepth)]

Stage(name, prob) == [name |-> name, prob |-> prob]

NoProb == Prob(0, 1)

get_train_transforms ==
  << Stage("RandomHorizontalFlip", Half), Stage("RandomChannelSwap", Half),
     Stage("ToTensor", NoProb) >>

\* get_test_transforms returning the augmenting chain.
get_test_transforms_augmenting ==
  << Stage("RandomHorizontalFlip", Half), Stage("RandomChannelSwap", Half),
     Stage("ToTensor", NoProb) >>

get_test_transforms == << Stage("ToTensor", NoProb) >>

\* The draws one stage can make: [flip, swap, k].
NoDraw == [flip |-> FALSE, swap |-> FALSE, k |-> 0]

DrawsOf(stage) ==
  IF stage.name = "RandomHorizontalFlip"
  THEN {[NoDraw EXCEPT !.flip = f] : f \in Chance(stage.prob)}
  ELSE IF stage.name = "RandomChannelSwap"
  THEN {NoDraw} \cup
       (IF TRUE \in Chance(stage.prob)
        THEN {[NoDraw EXCEPT !.swap = TRUE, !.k = k] : k \in 1..Len(channel_perms)}
        ELSE {})
  ELSE {NoDraw}

\* One stage of a composed chain applied to a sample, with its draws.
ApplyStage(stage, sample, d) ==
  IF stage.name = "RandomHorizontalFlip" THEN RandomHorizontalFlip(sample, d.flip)
  ELSE IF stage.name = "RandomChannelSwap" THEN RandomChannelSwap(sample, d.swap, d.k)
  ELSE ToTensor(sample)

\* The random stages assert that both fields are PIL images.
StageAccepts(stage, sample) ==
  stage.name = "ToTensor" \/ (IsPicture(sample.img) /\ IsPicture(sample.depth))

(***************************************************************************)
(* Loaders and NYUDepthDatasetRaw.__getitem__ in worker processes.         *)
(***************************************************************************)
\* Image.resize((320, 240)): a new picture of that size.
resize(pic) == [pic EXCEPT !.size = <<320, 240>>]

SplitOf(ds) == IF ds.split = "train" THEN nyu_train ELSE nyu_val

DatasetOf(which) == IF which = "train" THEN train_dataset ELSE val_dataset

get_train_dataloader ==
  /\ dl_pc = "built"
  /\ train_dataset' =
       [split |-> "train", transforms |-> get_train_transforms, resized |-> resized]
  /\ UNCHANGED <<dlVars, val_dataset, workers, tr>>

get_val_dataloader ==
  /\ dl_pc = "built"
  /\ val_dataset' =
       [split |-> "val", transforms |-> get_test_transforms, resized |-> resized]
  /\ UNCHANGED <<dlVars, train_dataset, workers, tr>>

\* Lines 144-151 of __getitem__: the exception they end with, or "none".
getitem_error(ds, idx) ==
  LET sample == SplitOf(ds)[idx]
  IN  IF Len(sample) < 1 THEN "IndexError"
      ELSE IF sample[1] \notin DOMAIN data THEN "KeyError"
      ELSE IF Len(sample) < 2 THEN "IndexError"
      ELSE IF sample[2] \notin DOMAIN data THEN "KeyError"
      ELSE "none"

\* Lines 144-151 of __getitem__: the decoded, possibly resized pair.
getitem_datum(ds, idx) ==
  LET sample == SplitOf(ds)[idx]
      depth  == data[sample[2]]
  IN  [img |-> data[sample[1]], depth |-> IF ds.resized THEN resize(depth) ELSE depth]

\* __getitem__ storing the resized depth map back into the archive mapping.
getitem_begin_caching(w, which, idx) ==
  /\ workers[w].pc = "idle"
  /\ DatasetOf(which).split # "none"
  /\ idx \in 1..Len(SplitOf(DatasetOf(which)))
  /\ workers' = [workers EXCEPT ![w] =
       IF getitem_error(DatasetOf(which), idx) # "none"
       THEN [pc |-> "error", which |-> which, idx |-> idx,
             error |-> getitem_error(DatasetOf(which), idx)]
       ELSE [pc |-> "transform", which |-> which, idx |-> idx,
             entry |-> SplitOf(DatasetOf(which))[idx],
             datum |-> getitem_datum(DatasetOf(which), idx),
             applied |-> <<>>, draws |-> <<>>]]
  /\ data' = IF getitem_error(DatasetOf(which), idx) = "none"
             THEN [data EXCEPT ![SplitOf(DatasetOf(which))[idx][2]] =
                     getitem_datum(DatasetOf(which), idx).depth]
             ELSE data
  /\ UNCHANGED <<dl_pc, dl_error, parsed, shuffled, nyu_train, nyu_val, nyu_test,
                 ratio, resized, train_dataset, val_dataset, tr>>

\* A worker enters dataset[idx] (idx counted from 1).
getitem_begin(w, which, idx) ==
  /\ workers[w].pc = "idle"
  /\ DatasetOf(which).split # "none"
  /\ idx \in 1..Len(SplitOf(DatasetOf(which)))
  /\ workers' = [workers EXCEPT ![w] =
       IF getitem_error(DatasetOf(which), idx) # "none"
       THEN [pc |-> "error", which |-> which, idx |-> idx,
             error |-> getitem_error(DatasetOf(which), idx)]
       ELSE [pc |-> "transform", which |-> which, idx |-> idx,
             entry |-> SplitOf(DatasetOf(which))[idx],
             datum |-> getitem_datum(DatasetOf(which), idx),
             applied |-> <<>>, draws |-> <<>>]]
  /\ UNCHANGED <<dlVars, train_dataset, val_dataset, tr>>

\* The next stage of self.transforms(datum) in a worker.
getitem_transform(w) ==
  /\ workers[w].pc = "transform"
  /\ LET me    == workers[w]
         chain == DatasetOf(me.which).transforms
         stage == chain[Len(me.applied) + 1]
     IN  /\ Len(me.applied) < Len(chain)
         /\ IF StageAccepts(stage, me.datum)
            THEN \E d \in DrawsOf(stage) :
                   workers' = [workers EXCEPT ![w] =
                     [me EXCEPT !.datum = ApplyStage(stage, me.datum, d),
                                !.applied = Append(me.applied, stage),
                                !.draws = Append(me.draws, d)]]
            ELSE workers' = [workers EXCEPT ![w] =
                   [pc |-> "error", which |-> me.which, idx |-> me.idx,
                    error |-> "AssertionError"]]
  /\ UNCHANGED <<dlVars, train_dataset, val_dataset, tr>>

\* __getitem__ returns the datum, or its exception ends the call.
getitem_return(w) ==
  /\ \/ workers[w].pc = "error"
     \/ /\ workers[w].pc = "transform"
        /\ Len(workers[w].applied) = Len(DatasetOf(workers[w].which).transforms)
  /\ workers' = [workers EXCEPT ![w] = Idle]
  /\ UNCHANGED <<dlVars, train_dataset, val_dataset, tr>>

(***************************************************************************)
(* Trainer.train_and_evaluate.  Floats the loop compares or scales are     *)
(* decimal values mant * 10^exp10 with mant in 1..9, or NaN.               *)
(***************************************************************************)
NUM_EPOCHS == 9

Dec(mant, exp10) == [nan |-> FALSE, mant |-> mant, exp10 |-> exp10]

NaN == [nan |-> TRUE, mant |-> 0, exp10 |-> 0]

LEARNING_RATE == Dec(1, -4)

\* Python's a < b on floats: false whenever one side is NaN.
Lt(a, b) ==
  /\ ~a.nan
  /\ ~b.nan
  /\ \/ a.exp10 < b.exp10
     \/ a.exp10 = b.exp10 /\ a.mant < b.mant

\* a * 10^-k for the power-of-ten factor gamma = 0.1 (k = 1).
TimesGamma(a) == [a EXCEPT !.exp10 = a.exp10 - 1]

\* best_rmse = 9e20, best_test_rmse = 9e20
Sentinel == Dec(9, 20)

step_size == 5

EvalEvery == 50

\* StepLR.step() decaying on the count before the increment.
StepLR_step_early(rate, count) ==
  [lr |-> IF count % step_size = 0 THEN TimesGamma(rate) ELSE rate,
   last_epoch |-> count + 1]

\* StepLR.step(): one more epoch counted; the learning rate is multiplied by
\* gamma whenever the count reaches a multiple of step_size.
StepLR_step(rate, count) ==
  [lr |-> IF (count + 1) % step_size = 0 THEN TimesGamma(rate) ELSE rate,
   last_epoch |-> count + 1]

\* RunningAverage: update(value, weight) and the mean it reports, here
\* times k and truncated to an integer (0 before any update).
RunningAverage == [steps |-> 0, total |-> 0]

update(avg, value, weight) ==
  [steps |-> avg.steps + weight, total |-> avg.total + value * weight]

IntOfMeanTimes(avg, k) == IF avg.steps = 0 THEN 0 ELSE (avg.total * k) \div avg.steps

\* int(accumulated_iteration_time() * (num_batches - iteration))
eta_seconds(avg, nb, it) == IntOfMeanTimes(avg, nb - it)

\* net_iteration_number without the epoch offset.
net_iteration_number_in_epoch(ep, nb, it) == it

\* net_iteration_number = epoch * num_batches + iteration
net_iteration_number(ep, nb, it) == ep * nb + it

\* The periodic branch skipping the first iteration of an epoch.
eval_due_after_first(it) == it % EvalEvery = 0 /\ it > 0

\* if iteration % 50 == 0
eval_due(it) == it % EvalEvery = 0

\* metrics['rmse'] < best_rmse
should_replace_best(candidate, best) == Lt(candidate, best)

NoCheckpoint == [iteration |-> -1]

EmptySlot == [count |-> 0, last |-> NoCheckpoint, is_best |-> FALSE]

\* save_checkpoint(state, is_best, checkpoint_dir): the directory's rolling
\* slot takes the bundle; the flag of the call is kept beside it.
save_checkpoint(st, state, flag, dir) ==
  [st EXCEPT ![dir] = [count |-> st[dir].count + 1, last |-> state, is_best |-> flag]]

Bundle(it, weights, rate) ==
  [iteration |-> it, state_dict |-> weights, optim_dict |-> [lr |-> rate]]

\* Checkpoint files a run can resume from: one written during the first
\* five epochs of an earlier run, one written after its fifth.
CheckpointFiles == {Bundle(100, 101, LEARNING_RATE), Bundle(300, 301, TimesGamma(LEARNING_RATE))}

None == [iteration |-> -2]

\* load_checkpoint(checkpoint_file, model, optimizer): model and optimizer
\* take the states of the bundle.
load_checkpoint(file) == [model_state |-> file.state_dict, lr |-> file.optim_dict.lr]

\* Lines 33-56: everything before the epoch loop.
train_and_evaluate(batch_counts, file) ==
  /\ tr_pc = "start"
  /\ \E nb \in batch_counts : num_batches' = nb
  /\ checkpoint_file' = file
  /\ IF file # None
     THEN /\ model_state' = load_checkpoint(file).model_state
          /\ lr' = load_checkpoint(file).lr
     ELSE /\ model_state' = 0
          /\ lr' = LEARNING_RATE
  /\ last_epoch' = 0
  /\ best_rmse' = Sentinel
  /\ is_best' = FALSE
  /\ best_test_rmse' = Sentinel
  /\ is_best_test' = FALSE
  /\ epoch' = 0
  /\ tr_pc' = IF NUM_EPOCHS > 0 THEN "epoch_start" ELSE "done"
  /\ UNCHANGED <<iteration, metrics, test_metrics, accumulated_loss,
                 accumulated_iteration_time, eta, store>>
  /\ UNCHANGED <<dlVars, serveVars>>

\* The head of an epoch with the watermarks initialised inside the epoch loop.
epoch_start_resetting ==
  /\ tr_pc = "epoch_start"
  /\ accumulated_loss' = RunningAverage
  /\ accumulated_iteration_time' = RunningAverage
  /\ iteration' = 0
  /\ best_rmse' = Sentinel
  /\ best_test_rmse' = Sentinel
  /\ tr_pc' = "iterating"
  /\ UNCHANGED <<checkpoint_file, num_batches, epoch, model_state, lr, last_epoch,
                 is_best, is_best_test, metrics, test_metrics, eta, store>>
  /\ UNCHANGED <<dlVars, serveVars>>

\* Lines 58-62: the head of one epoch.
epoch_start ==
  /\ tr_pc = "epoch_start"
  /\ accumulated_loss' = RunningAverage
  /\ accumulated_iteration_time' = RunningAverage
  /\ iteration' = 0
  /\ tr_pc' = "iterating"
  /\ UNCHANGED <<checkpoint_file, num_batches, epoch, model_state, lr, last_epoch,
                 best_rmse, is_best, best_test_rmse, is_best_test, metrics,
                 test_metrics, eta, store>>
  /\ UNCHANGED <<dlVars, serveVars>>

\* The periodic evaluation without the two resets of lines 130-131.
periodic_eval_sticky(m, tm) ==
  LET n      == net_iteration_number(epoch, num_batches, iteration)
      bundle == Bundle(n, model_state + 1, lr)
      flag   == is_best \/ should_replace_best(m, best_rmse)
      tflag  == is_best_test \/ should_replace_best(tm, best_test_rmse)
  IN  /\ metrics' = m
      /\ test_metrics' = tm
      /\ best_rmse' = IF should_replace_best(m, best_rmse) THEN m ELSE best_rmse
      /\ best_test_rmse' =
           IF should_replace_best(tm, best_test_rmse) THEN tm ELSE best_test_rmse
      /\ store' = save_checkpoint(save_checkpoint(store, bundle, flag, "experiments/train"),
                                  bundle, tflag, "experiments/test")
      /\ is_best_test' = tflag
      /\ is_best' = flag

\* Lines 94-131: the periodic evaluation with the RMSE values m (training
\* batch) and tm (validation batch) that evaluate_predictions and evaluate
\* return.
periodic_eval(m, tm) ==
  LET n      == net_iteration_number(epoch, num_batches, iteration)
      bundle == Bundle(n, model_state + 1, lr)
      flag   == is_best \/ should_replace_best(m, best_rmse)
      tflag  == is_best_test \/ should_replace_best(tm, best_test_rmse)
  IN  /\ metrics' = m
      /\ test_metrics' = tm
      /\ best_rmse' = IF should_replace_best(m, best_rmse) THEN m ELSE best_rmse
      /\ best_test_rmse' =
           IF should_replace_best(tm, best_test_rmse) THEN tm ELSE best_test_rmse
      /\ store' = save_checkpoint(save_checkpoint(store, bundle, flag, "experiments/train"),
                                  bundle, tflag, "experiments/test")
      /\ is_best_test' = FALSE
      /\ is_best' = FALSE

\* Lines 64-134: one pass of the iteration loop's body.
train_iteration(durations, losses, rmses) ==
  /\ tr_pc = "iterating"
  /\ iteration < num_batches
  /\ \E loss \in losses : accumulated_loss' = update(accumulated_loss, loss, 1)
  /\ model_state' = model_state + 1
  /\ \E d \in durations :
       /\ accumulated_iteration_time' = update(accumulated_iteration_time, d, 1)
       /\ eta' = eta_seconds(accumulated_iteration_time', num_batches, iteration)
  /\ IF eval_due(iteration)
     THEN \E m \in rmses, tm \in rmses : periodic_eval(m, tm)
     ELSE UNCHANGED <<metrics, test_metrics, best_rmse, best_test_rmse, store,
                      is_best, is_best_test>>
  /\ iteration' = iteration + 1
  /\ UNCHANGED <<tr_pc, checkpoint_file, num_batches, epoch, lr, last_epoch>>
  /\ UNCHANGED <<dlVars, serveVars>>

\* Lines 138-141 and the epoch loop's step.
epoch_end ==
  /\ tr_pc = "iterating"
  /\ iteration = num_batches
  /\ lr' = StepLR_step(lr, last_epoch).lr
  /\ last_epoch' = StepLR_step(lr, last_epoch).last_epoch
  /\ epoch' = epoch + 1
  /\ tr_pc' = IF epoch + 1 < NUM_EPOCHS THEN "epoch_start" ELSE "done"
  /\ UNCHANGED <<checkpoint_file, num_batches, iteration, model_state, best_rmse,
                 is_best, best_test_rmse, is_best_test, metrics, test_metrics,
                 accumulated_loss, accumulated_iteration_time, eta, store>>
  /\ UNCHANGED <<dlVars, serveVars>>

(***************************************************************************)
(* Specifications.                                                         *)
(***************************************************************************)
Init ==
  /\ dl_pc = "new"
  /\ dl_error = "none"
  /\ data = <<>>
  /\ parsed = <<>>
  /\ shuffled = <<>>
  /\ nyu_train = <<>>
  /\ nyu_val = <<>>
  /\ nyu_test = <<>>
  /\ ratio = DefaultRatio
  /\ resized = TRUE
  /\ train_dataset = NoDataset
  /\ val_dataset = NoDataset
  /\ workers = [w \in Workers |-> Idle]
  /\ tr_pc = "start"
  /\ checkpoint_file = None
  /\ num_batches = 0
  /\ epoch = 0
  /\ iteration = 0
  /\ model_state = 0
  /\ lr = LEARNING_RATE
  /\ last_epoch = 0
  /\ best_rmse = Sentinel
  /\ is_best = FALSE
  /\ best_test_rmse = Sentinel
  /\ is_best_test = FALSE
  /\ metrics = NaN
  /\ test_metrics = NaN
  /\ accumulated_loss = RunningAverage
  /\ accumulated_iteration_time = RunningAverage
  /\ eta = -1
  /\ store = [dir \in {"experiments/train", "experiments/test"} |-> EmptySlot]

\* ---- Construction of DataLoaders over generated archives.
LongLines == 50

SplitPaths ==
  {Unreadable, Container(LongManifest(LongLines), TestManifest),
   ContainerNoTest(<<97, 44, 120>>), Container(<<97, 44, 120>>, <<255>>)}
  \cup {Container(JoinLines(ls), TestManifest) : ls \in SeqsUpTo(Lines, MaxLines)}

SplitRatios == {DefaultRatio, Ratio(1, 2), Ratio(29, 50), Ratio(3, 5)}

NextSplit ==
  \E path \in SplitPaths, rsz \in BOOLEAN, r \in SplitRatios :
    DataLoaders_init(path, rsz, r)

SpecSplit == Init /\ [][NextSplit]_vars

\* ---- Worker processes serving samples of a two-line manifest.
ServePaths ==
  {Container(JoinLines(<< <<97, 44, 120>>, <<98, 44, 121>> >>), TestManifest),
   Container(JoinLines(<< <<97, 44, 120>>, <<97>> >>), TestManifest)}

NextServe ==
  \/ \E path \in ServePaths, rsz \in BOOLEAN : DataLoaders_init(path, rsz, Ratio(1, 2))
  \/ get_train_dataloader
  \/ get_val_dataloader
  \/ \E w \in Workers, which \in {"train", "val"}, idx \in 1..MaxLines :
       getitem_begin(w, which, idx)
  \/ \E w \in Workers : getitem_transform(w)
  \/ \E w \in Workers : getitem_return(w)

SpecServe == Init /\ [][NextServe]_vars

\* ---- The training loop.
ExtraBatches == 1

TrainBatchCounts == {0, 1} \cup (EvalEvery..(EvalEvery + ExtraBatches))

Rmses == {Dec(1, 0), Dec(2, 0), NaN}

NextTrain ==
  \/ \E file \in CheckpointFiles \cup {None} : train_and_evaluate(TrainBatchCounts, file)
  \/ epoch_start
  \/ train_iteration({1}, {1}, Rmses)
  \/ epoch_end

SpecTrain == Init /\ [][NextTrain]_vars

\* ---- The training loop over short epochs, with iteration times that vary.
MaxEtaBatches == 3

NextEta ==
  \/ \E file \in CheckpointFiles \cup {None} : train_and_evaluate(1..MaxEtaBatches, file)
  \/ epoch_start
  \/ train_iteration({1, 2, 3}, {1}, {Dec(1, 0)})
  \/ epoch_end

SpecEta == Init /\ [][NextEta]_vars

(***************************************************************************)
(* Properties.                                                             *)
(***************************************************************************)
\* floor(n * num/den) for the ratio as written.
FloorOfRatio(n, r) == (n * r.num) \div r.den

Distinct(s) == \A i, j \in 1..Len(s) : s[i] = s[j] => i = j

Count(s, e) == Cardinality({i \in 1..Len(s) : s[i] = e})

SameEntries(s, t) ==
  /\ Len(s) = Len(t)
  /\ \A e \in Range(s) \cup Range(t) : Count(s, e) = Count(t, e)

\* C1 as claimed: for every manifest of N parsed lines and every ratio r in
\* (0,1), a built DataLoaders has floor(N*r) train entries and N - floor(N*r)
\* validation entries, the two splits share no entry, and train followed by
\* validation is the shuffled manifest, a permutation of the parsed one.
C1_SplitAsClaimed ==
  dl_pc = "built" =>
    /\ Len(nyu_train) = FloorOfRatio(Len(parsed), ratio)
    /\ Len(nyu_val) = Len(parsed) - FloorOfRatio(Len(parsed), ratio)
    /\ Range(nyu_train) \cap Range(nyu_val) = {}
    /\ nyu_train \o nyu_val = shuffled
    /\ SameEntries(shuffled, parsed)

\* C1 as amended: the train split has floor(N*r) entries when N*r is not a
\* whole number and N*r or N*r - 1 entries when it is (the double product
\* can round below it), the validation split has the other N - |train|
\* entries, train followed by validation is the shuffled manifest, a
\* permutation of the parsed one, and the splits share no entry when the
\* lines of the manifest are pairwise distinct.
C1_Split ==
  dl_pc = "built" =>
    LET N     == Len(parsed)
        F     == FloorOfRatio(N, ratio)
        whole == (N * ratio.num) % ratio.den = 0
    IN  /\ ~whole => Len(nyu_train) = F
        /\ whole => Len(nyu_train) \in {F - 1, F} \cap (0..N)
        /\ Len(nyu_val) = N - Len(nyu_train)
        /\ nyu_train \o nyu_val = shuffled
        /\ SameEntries(shuffled, parsed)
        /\ Distinct(parsed) => Range(nyu_train) \cap Range(nyu_val) = {}

\* A three-line manifest of distinct lines split 2 + 1 at the default ratio
\* after a shuffle that moved entries.
C1_Witness ==
  /\ dl_pc = "built"
  /\ ratio = DefaultRatio
  /\ Len(parsed) = 3
  /\ Distinct(parsed)
  /\ shuffled # parsed
  /\ Len(nyu_train) = 2
  /\ Len(nyu_val) = 1

\* The rounding case of C1: a whole product N*r whose double falls below it.
C1_RoundedBelow ==
  /\ dl_pc = "built"
  /\ (Len(parsed) * ratio.num) % ratio.den = 0
  /\ Len(nyu_train) = FloorOfRatio(Len(parsed), ratio) - 1

WellFormed(manifest) == \A i \in 1..Len(manifest) : Len(manifest[i]) = 2

\* C2 as claimed: construction fails whenever a non-empty manifest line does
\* not split into exactly two fields, so every entry of a built DataLoaders
\* has two fields.
C2_MalformedLineFails ==
  dl_pc = "built" => WellFormed(parsed) /\ WellFormed(nyu_test)

NotAbove(a, b) == a = b \/ Lt(a, b)

\* C3: once train_and_evaluate has started, both watermarks are the sentinel
\* 9e20, and no step of the run, epoch boundaries included, raises or resets
\* either of them.
C3_WatermarksMonotone ==
  [][/\ tr_pc = "start" /\ tr_pc' # "start"
          => best_rmse' = Sentinel /\ best_test_rmse' = Sentinel
     /\ tr_pc # "start"
          => NotAbove(best_rmse', best_rmse) /\ NotAbove(best_test_rmse', best_test_rmse)]_vars

\* A watermark set in an earlier epoch survives a worse value in a later one.
C3_Witness ==
  /\ epoch >= 1
  /\ tr_pc = "iterating"
  /\ iteration > 0
  /\ best_rmse = Dec(1, 0)
  /\ metrics = Dec(2, 0)
  /\ best_test_rmse = Dec(2, 0)
  /\ test_metrics = NaN

\* C4: at every periodic evaluation the flag each track's checkpoint write
\* gets is true exactly when that track's RMSE of this evaluation is
\* strictly below that track's watermark as it was before the evaluation.
C4_IsBestFlag ==
  [][store' # store =>
       /\ store'["experiments/train"].is_best = Lt(metrics', best_rmse)
       /\ store'["experiments/test"].is_best = Lt(test_metrics', best_test_rmse)]_vars

\* A later evaluation where the training RMSE ties its watermark (no flag)
\* while the validation RMSE improves (flag).
C4_Witness ==
  /\ store["experiments/train"].count >= 2
  /\ metrics = best_rmse
  /\ ~store["experiments/train"].is_best
  /\ store["experiments/test"].is_best
  /\ best_test_rmse = Dec(1, 0)

Dirs == {"experiments/train", "experiments/test"}

\* C5: a step writes one checkpoint to each destination when it is a
\* training iteration whose within-epoch number is a multiple of 50, and
\* writes none otherwise.
C5_CheckpointCadence ==
  [][LET due == tr_pc = "iterating" /\ iteration' = iteration + 1 /\ iteration % 50 = 0
     IN  \A dir \in Dirs :
           store'[dir].count = store[dir].count + (IF due THEN 1 ELSE 0)]_vars

\* The evaluation at iteration 50 of an epoch wrote both checkpoints although
\* neither RMSE improved.
C5_Witness ==
  /\ tr_pc = "iterating"
  /\ iteration = 51
  /\ \A dir \in Dirs : store[dir].count = 2 /\ ~store[dir].is_best
  /\ metrics = Dec(2, 0)
  /\ best_rmse = Dec(1, 0)

TrainChain ==
  << Stage("RandomHorizontalFlip", Prob(1, 2)), Stage("RandomChannelSwap", Prob(1, 2)),
     Stage("ToTensor", Prob(0, 1)) >>

ValChain == << Stage("ToTensor", Prob(0, 1)) >>

IsPrefix(s, t) == Len(s) <= Len(t) /\ s = Take(t, Len(s))

\* C6: the stages a worker applies to a train sample are HorizontalFlip(0.5),
\* ChannelSwap(0.5), ToTensor in that order, those it applies to a
\* validation sample are ToTensor alone; a sample is a tensor pair exactly
\* when its chain is complete, and a served validation sample is the tensor
\* of the decoded pair, unaugmented.
C6_Chains ==
  \A w \in Workers :
    workers[w].pc = "transform" =>
      LET me    == workers[w]
          chain == IF me.which = "train" THEN TrainChain ELSE ValChain
      IN  /\ IsPrefix(me.applied, chain)
          /\ (me.applied = chain) = (me.datum.img.kind = "tensor")
          /\ (me.applied = chain) = (me.datum.depth.kind = "tensor")
          /\ me.which = "val" /\ me.applied = chain
               => me.datum = ToTensor(getitem_datum(DatasetOf("val"), me.idx))

\* One worker holds a finished train sample, another a finished validation
\* sample.
C6_Witness ==
  \E v, w \in Workers :
    /\ workers[v].pc = "transform" /\ workers[v].which = "train"
    /\ workers[v].applied = TrainChain
    /\ workers[w].pc = "transform" /\ workers[w].which = "val"
    /\ workers[w].applied = ValChain

\* C7 as claimed: after an iteration the ETA is the running average
\* iteration time times the iterations of this epoch not yet completed.
C7_EtaRemaining ==
  tr_pc = "iterating" /\ iteration > 0
    => eta = IntOfMeanTimes(accumulated_iteration_time, num_batches - iteration)

StartRate == IF checkpoint_file = None THEN LEARNING_RATE ELSE checkpoint_file.optim_dict.lr

RECURSIVE Compose(_, _, _)
Compose(chain, draws, sample) ==
  IF Len(draws) = 0 THEN sample
  ELSE LET before == CHOOSE x \in {Compose(chain, Take(draws, Len(draws) - 1), sample)} : TRUE
       IN  ApplyStage(chain[Len(draws)], before, draws[Len(draws)])

\* The decoded pair of a manifest entry, read from the archive as it is now.
Decoded(entry) ==
  [img |-> data[entry[1]], depth |-> IF resized THEN resize(data[entry[2]]) ELSE data[entry[2]]]

SharedByWorkers == <<data, nyu_train, nyu_val, train_dataset, val_dataset>>

\* What a worker holds is what its manifest entry and its own draws give.
SampleDetermined ==
  \A w \in Workers :
    workers[w].pc = "transform" =>
      LET me == workers[w]
      IN  /\ me.entry = (IF me.which = "train" THEN nyu_train ELSE nyu_val)[me.idx]
          /\ me.datum = Compose(IF me.which = "train" THEN TrainChain ELSE ValChain,
                                me.draws, Decoded(me.entry))

\* C9: a step of a worker's get(index) leaves the archive mapping, both
\* splits' manifest lists and both datasets' transform chains as they were,
\* and the sample a worker holds is what its manifest entry and its own
\* draws determine, whatever the other workers did meanwhile.
C9_WorkersShareReadOnly ==
  /\ [][workers' # workers => SharedByWorkers' = SharedByWorkers]_vars
  /\ []SampleDetermined

\* Two workers inside get() at once, one of them having flipped and swapped
\* its sample.
C9_Witness ==
  \E v, w \in Workers :
    /\ v # w
    /\ workers[v].pc = "transform" /\ Len(workers[v].applied) = 1
    /\ workers[w].pc = "transform" /\ Len(workers[w].applied) = 3
    /\ workers[w].draws[1].flip
    /\ workers[w].draws[2].swap

\* C10: whenever a checkpoint is written to a destination its iteration
\* number is epoch * num_batches + iteration with iteration < num_batches,
\* and it is larger than that of the checkpoint written there before it in
\* this run, resumed or not.
C10_IterationNumbers ==
  [][\A dir \in Dirs :
       store'[dir].count > store[dir].count =>
         /\ store'[dir].last.iteration = epoch * num_batches + iteration
         /\ iteration < num_batches
         /\ store[dir].count > 0 => store'[dir].last.iteration > store[dir].last.iteration]_vars

\* A resumed run that wrote the first checkpoint of its second epoch.
C10_Witness ==
  /\ checkpoint_file # None
  /\ epoch = 1
  /\ iteration = 1
  /\ num_batches > 1
  /\ \A dir \in Dirs : store[dir].last.iteration = num_batches

====
